---- MODULE Spec2Model ----
(***************************************************************************)
(* Recurrent-memory wrapper RMTEncoderForSequenceClassification            *)
(* (modeling_rmt.py): segmentation of a batch of token-id sequences into   *)
(* right-aligned slots and the segment-by-segment forward loop that        *)
(* threads the memory through the base encoder.                            *)
(*                                                                         *)
(* Tensors of token ids are sequences of integers, a batch is a sequence   *)
(* of rows, Python's None is the empty sequence (no segment is empty).     *)
(* The base encoder is external: its hidden states are symbolic values     *)
(* <<slot, row>> (row = position in the stacked, active-only batch) and    *)
(* its loss is drawn from 1..MaxLoss.                                      *)
(***************************************************************************)
EXTENDS Integers, Sequences, FiniteSets, TLC

\* ---- bounds of the model ----
MaxLen == 3          \* content tokens per input row: 0..MaxLen
MaxBatch == 2        \* rows per batch: 1..MaxBatch
MaxMemTokens == 2    \* num_mem_tokens: 1..MaxMemTokens
MaxSegmentSize == 2  \* segment_size: 1..MaxSegmentSize
MaxSegments == 3     \* max_n_segments: 1..MaxSegments
MaxDepth == 1        \* bptt_depth: -1..MaxDepth
MaxLoss == 3         \* per-slot loss of the base encoder: 1..MaxLoss

\* ---- the base model's vocabulary and the tokenizers ----
vocab_size == 5
Tokenizers ==
    { [pad_token_id |-> 0, cls_token_id |-> 1, sep_token_id |-> 2],
      [pad_token_id |-> 1, cls_token_id |-> 0, sep_token_id |-> 2] }

None == << >>

VARIABLES rmt, pc, input_ids, labels, segmented, seg_num, memory,
          mem_detached, losses, calls, detach_log, out, error

vars == << rmt, pc, input_ids, labels, segmented, seg_num, memory,
           mem_detached, losses, calls, detach_log, out, error >>

\* ---- helpers on sequences ----
Min(a, b) == IF a < b THEN a ELSE b

Reverse(s) == [i \in 1..Len(s) |-> s[Len(s) + 1 - i]]

RECURSIVE Cat(_)
Cat(ss) == IF ss = << >> THEN << >> ELSE Head(ss) \o Cat(Tail(ss))

RECURSIVE SumSeq(_)
SumSeq(s) == IF s = << >> THEN 0 ELSE Head(s) + SumSeq(Tail(s))

\* math.ceil(a / b) for a >= 0, b > 0
Ceil(a, b) == (a + b - 1) \div b

\* tensor[mask]: the rows of s whose mask entry is TRUE, in order
RECURSIVE MaskSelect(_, _)
MaskSelect(s, mask) ==
    IF s = << >> THEN << >>
    ELSE (IF Head(mask) THEN << Head(s) >> ELSE << >>)
         \o MaskSelect(Tail(s), Tail(mask))

\* tensor[mask] = values: row b of s, when masked, takes the next value
RECURSIVE MaskAssign(_, _, _)
MaskAssign(s, mask, values) ==
    IF s = << >> THEN << >>
    ELSE IF Head(mask)
         THEN << Head(values) >> \o MaskAssign(Tail(s), Tail(mask), Tail(values))
         ELSE << Head(s) >> \o MaskAssign(Tail(s), Tail(mask), values)

\* ---- construction: set_params ----
mem_token_ids(self) == [j \in 1..self.num_mem_tokens |-> vocab_size + j - 1]

\* positions of the memory inside a segment, 0-based as in the source
memory_position(self) == 1..self.num_mem_tokens

set_params(num_mem_tokens, tokenizer, input_size, max_n_segments, bptt_depth, sum_loss) ==
    [ num_mem_tokens |-> num_mem_tokens,
      pad_token_id   |-> tokenizer.pad_token_id,
      cls_token      |-> tokenizer.cls_token_id,
      sep_token      |-> tokenizer.sep_token_id,
      input_size     |-> input_size,
      max_n_segments |-> max_n_segments,
      bptt_depth     |-> bptt_depth,
      sum_loss       |-> sum_loss,
      segment_size   |-> input_size - num_mem_tokens - 3 ]

\* ---- segment assembly ----
Zeros(n) == [j \in 1..n |-> 0]

\* variant: the pad size is computed from the content instead of the
\* assembled segment
pad_add_special_tokens_short(self, tensor, segment_size) ==
    LET cat == << self.cls_token >> \o mem_token_ids(self) \o << self.sep_token >>
               \o tensor \o << self.sep_token >>
        pad_size == segment_size - Len(tensor) - 3
    IN  IF pad_size > 0 THEN cat \o Zeros(pad_size) ELSE cat

pad_add_special_tokens(self, tensor, segment_size) ==
    LET cat == << self.cls_token >> \o mem_token_ids(self) \o << self.sep_token >>
               \o tensor \o << self.sep_token >>
        pad_size == segment_size - Len(cat)
    IN  IF pad_size > 0 THEN cat \o Zeros(pad_size) ELSE cat

\* ---- segmentation ----
\* variant: only leading and trailing special tokens are removed
RECURSIVE StripLeading(_, _)
StripLeading(self, seq) ==
    IF seq # << >> /\ Head(seq) \in {self.pad_token_id, self.cls_token, self.sep_token}
    THEN StripLeading(self, Tail(seq))
    ELSE seq

StripSpecialEdges(self, seq) ==
    Reverse(StripLeading(self, Reverse(StripLeading(self, seq))))

StripSpecial(self, seq) ==
    SelectSeq(seq, LAMBDA t : t # self.pad_token_id /\ t # self.cls_token
                              /\ t # self.sep_token)

Truncate(self, seq) ==
    SubSeq(seq, 1, Min(Len(seq), self.segment_size * self.max_n_segments))

\* variant: the pieces are one token wider than ceil(len/chunks)
TorchChunkWide(seq, chunks) ==
    LET split_size == Ceil(Len(seq), chunks) + 1
        n == Ceil(Len(seq), split_size)
    IN  [j \in 1..n |-> SubSeq(seq, (j - 1) * split_size + 1,
                               Min(j * split_size, Len(seq)))]

\* torch.chunk(seq, chunks), chunks > 0: pieces of ceil(len/chunks) tokens
TorchChunk(seq, chunks) ==
    LET split_size == Ceil(Len(seq), chunks)
        n == IF split_size = 0 THEN 1 ELSE Ceil(Len(seq), split_size)
    IN  [j \in 1..n |-> SubSeq(seq, (j - 1) * split_size + 1,
                               Min(j * split_size, Len(seq)))]

\* variant: len // segment_size + 1 instead of the ceiling
n_seg_floor(self, seq) ==
    (Len(Truncate(self, StripSpecial(self, seq))) \div self.segment_size) + 1

n_seg(self, seq) == Ceil(Len(Truncate(self, StripSpecial(self, seq))), self.segment_size)

input_segments(self, seq) ==
    LET s == Truncate(self, StripSpecial(self, seq))
        chunks == TorchChunk(s, n_seg(self, seq))
    IN  [j \in 1..Len(chunks) |->
            pad_add_special_tokens(self, chunks[j], self.input_size)]

\* torch.chunk rejects chunks = 0: a row with no content raises
pad_and_segment_raises(self, ids) ==
    \E b \in 1..Len(ids) : n_seg(self, ids[b]) = 0

\* variant: the slot order is not reversed back (left-aligned, last chunk first)
AlignNoOuterReverse(self, segmented_batch) ==
    [k \in 1..self.max_n_segments |->
       [b \in 1..Len(segmented_batch) |->
          IF Len(segmented_batch[b]) > k - 1
          THEN Reverse(segmented_batch[b])[k]
          ELSE None]]

\* variant: the chunk lists are not reversed (right-aligned presence only
\* by the final reversal, chunks in the wrong slots)
AlignNoInnerReverse(self, segmented_batch) ==
    Reverse([k \in 1..self.max_n_segments |->
               [b \in 1..Len(segmented_batch) |->
                  IF Len(segmented_batch[b]) > k - 1
                  THEN segmented_batch[b][k]
                  ELSE None]])

AlignRight(self, segmented_batch) ==
    Reverse([k \in 1..self.max_n_segments |->
               [b \in 1..Len(segmented_batch) |->
                  IF Len(segmented_batch[b]) > k - 1
                  THEN Reverse(segmented_batch[b])[k]
                  ELSE None]])

pad_and_segment(self, ids) ==
    AlignRight(self, [b \in 1..Len(ids) |-> input_segments(self, ids[b])])

get_attention_mask(self, tensor) ==
    [r \in 1..Len(tensor) |->
        [p \in 1..Len(tensor[r]) |->
            IF tensor[r][p] = self.pad_token_id THEN 0 ELSE 1]]

get_token_type_ids(tensor) ==
    [r \in 1..Len(tensor) |-> [p \in 1..Len(tensor[r]) |-> 0]]

\* ---- inputs: rows as the data loader builds them ----
Content(len) == [p \in 1..len |-> 3 + ((p - 1) % (vocab_size - 3))]

\* [CLS] content [SEP] pad..., or [CLS] a [SEP] b [SEP] pad... for a pair
Row(self, len, pair) ==
    LET c == Content(len)
        body == IF pair /\ len >= 2
                THEN SubSeq(c, 1, 1) \o << self.sep_token >> \o SubSeq(c, 2, len)
                ELSE c
        toks == << self.cls_token >> \o body \o << self.sep_token >>
    IN  toks \o [j \in 1..(MaxLen + 3 - Len(toks)) |-> self.pad_token_id]

RowShapes == { sh \in (0..MaxLen) \X BOOLEAN : sh[2] => sh[1] = MaxLen }

Batches(self) ==
    UNION { { [b \in 1..B |-> Row(self, shapes[b][1], shapes[b][2])] :
                shapes \in [1..B -> RowShapes] } : B \in 1..MaxBatch }

Emb == << -1, 0 >>

Configs ==
    { set_params(k, tok, k + 3 + s, m, d, sl) :
        k \in 1..MaxMemTokens, tok \in Tokenizers, s \in 1..MaxSegmentSize,
        m \in 1..MaxSegments, d \in -1..MaxDepth, sl \in BOOLEAN }

NoOut == [loss |-> 0, loss_i |-> << >>, hidden_states |-> None]

Init ==
    /\ rmt \in Configs
    /\ pc = "init"
    /\ input_ids = << >>
    /\ labels = << >>
    /\ segmented = << >>
    /\ seg_num = 0
    /\ memory = << >>
    /\ mem_detached = FALSE
    /\ losses = << >>
    /\ calls = << >>
    /\ detach_log = << >>
    /\ out = NoOut
    /\ error = "none"

\* __call__, lines 48-52: initial memory and segmentation
Call ==
    /\ pc = "init"
    /\ \E ids \in Batches(rmt) :
         /\ input_ids' = ids
         /\ labels' = [b \in 1..Len(ids) |-> b % 2]
         /\ memory' = [b \in 1..Len(ids) |-> Emb]
         /\ IF pad_and_segment_raises(rmt, ids)
            THEN /\ pc' = "raised"
                 /\ error' = "chunk"
                 /\ segmented' = << >>
            ELSE /\ pc' = "loop"
                 /\ error' = "none"
                 /\ segmented' = pad_and_segment(rmt, ids)
    /\ UNCHANGED << rmt, seg_num, mem_detached, losses, calls, detach_log, out >>

\* variant: >= in place of > (one slot fewer lets gradients through)
DetachesInclusive(self, n_slots, i) ==
    self.bptt_depth > -1 /\ n_slots - i >= self.bptt_depth

\* lines 54-55, evaluated at the start of every iteration
Detaches(self, n_slots, i) ==
    self.bptt_depth > -1 /\ n_slots - i > self.bptt_depth

non_empty_mask(slot) == [b \in 1..Len(slot) |-> slot[b] # None]

NumActive(slot) == Cardinality({b \in 1..Len(slot) : slot[b] # None})

NotInvoked == [invoked |-> FALSE]

InLoop == pc = "loop" /\ seg_num < Len(segmented)

\* variant: a skipped slot still records a (zero) loss
SkipSlotRecordsLoss ==
    /\ InLoop
    /\ LET slot == segmented[seg_num + 1]
           det == Detaches(rmt, Len(segmented), seg_num)
       IN  /\ NumActive(slot) = 0
           /\ mem_detached' = (mem_detached \/ det)
           /\ detach_log' = Append(detach_log, det)
           /\ calls' = Append(calls, NotInvoked)
    /\ seg_num' = seg_num + 1
    /\ losses' = Append(losses, 0)
    /\ UNCHANGED << rmt, pc, input_ids, labels, segmented, memory, out, error >>

\* lines 53-62: a slot with no active element
SkipSlot ==
    /\ InLoop
    /\ LET slot == segmented[seg_num + 1]
           det == Detaches(rmt, Len(segmented), seg_num)
       IN  /\ NumActive(slot) = 0
           /\ mem_detached' = (mem_detached \/ det)
           /\ detach_log' = Append(detach_log, det)
           /\ calls' = Append(calls, NotInvoked)
    /\ seg_num' = seg_num + 1
    /\ UNCHANGED << rmt, pc, input_ids, labels, segmented, memory, losses, out, error >>

\* lines 53-63: torch.stack over a list that holds None raises TypeError
StackRaises ==
    /\ InLoop
    /\ LET slot == segmented[seg_num + 1]
           det == Detaches(rmt, Len(segmented), seg_num)
       IN  /\ NumActive(slot) > 0
           /\ \E b \in 1..Len(slot) : slot[b] = None
           /\ mem_detached' = (mem_detached \/ det)
           /\ detach_log' = Append(detach_log, det)
    /\ pc' = "raised"
    /\ error' = "stack"
    /\ UNCHANGED << rmt, input_ids, labels, segmented, seg_num, memory, losses,
                    calls, out >>

\* lines 53-78: one processed slot
ProcessSlot ==
    /\ InLoop
    /\ LET slot == segmented[seg_num + 1]
           det == Detaches(rmt, Len(segmented), seg_num)
           mask == non_empty_mask(slot)
           ids == MaskSelect(slot, mask)
           hidden == [r \in 1..Len(ids) |-> << seg_num, r >>]
       IN  /\ NumActive(slot) > 0
           /\ \A b \in 1..Len(slot) : slot[b] # None
           /\ \E loss \in 1..MaxLoss :
                /\ calls' = Append(calls,
                      [ invoked        |-> TRUE,
                        input_ids      |-> ids,
                        attention_mask |-> get_attention_mask(rmt, ids),
                        token_type_ids |-> get_token_type_ids(ids),
                        labels         |-> MaskSelect(labels, mask),
                        memory_in      |-> MaskSelect(memory, mask),
                        detached_in    |-> (mem_detached \/ det),
                        hidden_out     |-> hidden,
                        loss           |-> loss ])
                /\ losses' = Append(losses, loss)
                /\ out' = [loss |-> loss, loss_i |-> << >>, hidden_states |-> hidden]
           /\ memory' = MaskAssign(memory, mask, hidden)
           /\ mem_detached' = FALSE
           /\ detach_log' = Append(detach_log, det)
    /\ seg_num' = seg_num + 1
    /\ UNCHANGED << rmt, pc, input_ids, labels, segmented, error >>

\* variant: the aggregate is the mean of the per-slot losses
combine_losses_mean(self, ls, last) ==
    IF self.sum_loss THEN SumSeq(ls) \div Len(ls) ELSE last

\* lines 89-90: torch.stack(losses).sum(dim=0) replaces the last slot's loss
combine_losses(self, ls, last) ==
    IF self.sum_loss THEN SumSeq(ls) ELSE last

\* lines 86-87: out['loss_i'] = l.mean() for the i-th recorded loss
loss_fields(ls) == [i \in 1..Len(ls) |-> ls[i]]

\* lines 80-95: drop hidden states, attach loss_i, combine the losses
Finish ==
    /\ pc = "loop"
    /\ seg_num = Len(segmented)
    /\ IF losses = << >>
       THEN /\ pc' = "raised"
            /\ error' = "unbound out"
            /\ out' = out
       ELSE /\ pc' = "done"
            /\ error' = error
            /\ out' = [ loss          |-> combine_losses(rmt, losses, out.loss),
                        loss_i        |-> loss_fields(losses),
                        hidden_states |-> None ]
    /\ UNCHANGED << rmt, input_ids, labels, segmented, seg_num, memory,
                    mem_detached, losses, calls, detach_log >>

Next == Call \/ SkipSlot \/ StackRaises \/ ProcessSlot \/ Finish

Spec == Init /\ [][Next]_vars

\* ---- the two-sequence scenario: segment_size 5, three slots, rows of
\* 12 and of 3 content tokens ----
Scenario == [segment_size |-> 5, max_n_segments |-> 3, len_A |-> 12, len_B |-> 3]

ScenarioConfigs ==
    { set_params(k, tok, k + 3 + Scenario.segment_size, Scenario.max_n_segments, d, sl) :
        k \in 1..MaxMemTokens, tok \in Tokenizers, d \in -1..MaxDepth,
        sl \in BOOLEAN }

\* [CLS] content [SEP] pad..., every row as wide as the longest one
ScenarioRow(self, len) ==
    LET toks == << self.cls_token >> \o Content(len) \o << self.sep_token >>
    IN  toks \o [j \in 1..(Scenario.len_A + 2 - Len(toks)) |-> self.pad_token_id]

ScenarioBatches(self) ==
    UNION { { [b \in 1..B |-> ScenarioRow(self, lens[b])] :
                lens \in [1..B -> {Scenario.len_A, Scenario.len_B}] } :
            B \in 1..MaxBatch }

ScenarioInit ==
    /\ rmt \in ScenarioConfigs
    /\ pc = "init"
    /\ input_ids = << >>
    /\ labels = << >>
    /\ segmented = << >>
    /\ seg_num = 0
    /\ memory = << >>
    /\ mem_detached = FALSE
    /\ losses = << >>
    /\ calls = << >>
    /\ detach_log = << >>
    /\ out = NoOut
    /\ error = "none"

\* __call__, lines 48-52, on a batch of the scenario
ScenarioCall ==
    /\ pc = "init"
    /\ \E ids \in ScenarioBatches(rmt) :
         /\ input_ids' = ids
         /\ labels' = [b \in 1..Len(ids) |-> b % 2]
         /\ memory' = [b \in 1..Len(ids) |-> Emb]
         /\ IF pad_and_segment_raises(rmt, ids)
            THEN /\ pc' = "raised"
                 /\ error' = "chunk"
                 /\ segmented' = << >>
            ELSE /\ pc' = "loop"
                 /\ error' = "none"
                 /\ segmented' = pad_and_segment(rmt, ids)
    /\ UNCHANGED << rmt, seg_num, mem_detached, losses, calls, detach_log, out >>

ScenarioNext == ScenarioCall \/ SkipSlot \/ StackRaises \/ ProcessSlot \/ Finish

ScenarioSpec == ScenarioInit /\ [][ScenarioNext]_vars

\* ======================================================================
\* Properties
\* ======================================================================

\* pad_and_segment has returned (the call got past line 50); segmented is
\* not assigned again in the call
Returned == pc \in {"loop", "done"} \/ (pc = "raised" /\ error # "chunk")

\* pad_and_segment has just returned: the loop has not entered a slot yet
Segmented == pc = "loop" /\ detach_log = << >>

Batch == 1..Len(input_ids)
Slots == 1..Len(segmented)

Active(slot) == {b \in 1..Len(slot) : slot[b] # None}

\* the sequence seq with every occurrence of the tokens of specials removed
RECURSIVE Without(_, _)
Without(seq, specials) ==
    IF seq = << >> THEN << >>
    ELSE IF Head(seq) \in specials THEN Without(Tail(seq), specials)
         ELSE << Head(seq) >> \o Without(Tail(seq), specials)

Specials == {rmt.pad_token_id, rmt.cls_token, rmt.sep_token}

\* what a row is expected to contribute: stripped, then cut to the capacity
Stripped(b) == Without(input_ids[b], Specials)
Capacity == rmt.segment_size * rmt.max_n_segments
Kept(b) == [p \in 1..Min(Len(Stripped(b)), Capacity) |-> Stripped(b)[p]]

\* the content portion of an assembled segment: the tokens after the first
\* SEP (which follows CLS and the memory ids) up to the next SEP
RECURSIVE UpToSep(_)
UpToSep(seq) ==
    IF seq = << >> \/ Head(seq) = rmt.sep_token THEN << >>
    ELSE << Head(seq) >> \o UpToSep(Tail(seq))

ContentOf(seg) == UpToSep(SubSeq(seg, rmt.num_mem_tokens + 3, Len(seg)))

\* the segments of row b over the slots, absent slots left out, in slot order
SlotsOf(b) == SelectSeq([i \in Slots |-> segmented[i][b]], LAMBDA s : s # None)

ContentsOf(b) == [j \in 1..Len(SlotsOf(b)) |-> ContentOf(SlotsOf(b)[j])]

\* C2: concatenating the content portions of a row's non-absent slots in
\* slot order gives the row with every pad, CLS and SEP token removed, cut
\* to its first segment_size * max_n_segments tokens.
C2_RoundTrip ==
    Segmented => \A b \in Batch : Cat(ContentsOf(b)) = Kept(b)

\* C2 witness: a row with a SEP in its interior and more content than the
\* capacity has been segmented into several slots.
C2_Witness ==
    /\ Segmented
    /\ \E b \in Batch :
         /\ Len(Stripped(b)) > Capacity
         /\ Len(SlotsOf(b)) >= 2
         /\ \E p \in 2..(Len(Stripped(b)) + 1) : input_ids[b][p] = rmt.sep_token

\* C3: a row of stripped length L gets ceil(min(L, segment_size *
\* max_n_segments) / segment_size) non-absent slots, each with at most
\* segment_size content tokens.
C3_SlotCount ==
    Segmented =>
      \A b \in Batch :
        /\ Len(SlotsOf(b)) * rmt.segment_size >= Min(Len(Stripped(b)), Capacity)
        /\ (Len(SlotsOf(b)) - 1) * rmt.segment_size < Min(Len(Stripped(b)), Capacity)
        /\ \A j \in 1..Len(SlotsOf(b)) : Len(ContentsOf(b)[j]) <= rmt.segment_size

\* C3 witness: a row whose length is a multiple of segment_size (two full
\* slots) next to a row that was cut to the capacity.
C3_Witness ==
    /\ Segmented
    /\ rmt.segment_size = 2
    /\ \E b \in Batch : Len(Stripped(b)) = 2 /\ Len(SlotsOf(b)) = 1
    /\ \E b \in Batch : Len(Stripped(b)) > Capacity /\ Len(SlotsOf(b)) = rmt.max_n_segments

\* number of chunks of row b and its chunk number j (0-based), assembled
NumChunks(b) == Len(input_segments(rmt, input_ids[b]))
Chunk(b, j) == input_segments(rmt, input_ids[b])[j + 1]

\* C4: pad_and_segment returns max_n_segments slots of batch-size length;
\* slot i (0-based) of row b is populated iff i >= max_n_segments - n_seg(b)
\* and then holds chunk i - (max_n_segments - n_seg(b)); the final slot is
\* populated for every row and a row shorter than segment_size occupies
\* only the final slot.
C4_RightAligned ==
    Segmented =>
      /\ Len(segmented) = rmt.max_n_segments
      /\ \A i \in Slots : Len(segmented[i]) = Len(input_ids)
      /\ \A b \in Batch : \A i \in 0..(rmt.max_n_segments - 1) :
           LET first == rmt.max_n_segments - NumChunks(b)
           IN  /\ (segmented[i + 1][b] # None) <=> (i >= first)
               /\ i >= first => segmented[i + 1][b] = Chunk(b, i - first)
      /\ \A b \in Batch : segmented[rmt.max_n_segments][b] # None
      /\ \A b \in Batch :
           Len(Stripped(b)) < rmt.segment_size =>
             \A i \in Slots : (segmented[i][b] # None) <=> (i = rmt.max_n_segments)

\* C4 witness: three slots, one row with two chunks of different content
\* and one row shorter than segment_size.
C4_Witness ==
    /\ Segmented
    /\ rmt.max_n_segments = 3
    /\ \E b \in Batch : NumChunks(b) = 2 /\ Chunk(b, 0) # Chunk(b, 1)
    /\ \E b \in Batch : Len(Stripped(b)) < rmt.segment_size

\* C9: every assembled segment has length input_size and the layout
\* [CLS, memory ids, SEP, content, SEP, padding]; the positions
\* memory_position hold vocab_size .. vocab_size + num_mem_tokens - 1 and
\* never pad_token_id.
C9_Layout ==
    Segmented =>
      \A i \in Slots : \A b \in Active(segmented[i]) :
        LET seg == segmented[i][b]
            k == rmt.num_mem_tokens
            c == Len(ContentOf(seg))
        IN  /\ Len(seg) = rmt.input_size
            /\ seg[1] = rmt.cls_token
            /\ \A p \in memory_position(rmt) :
                 /\ seg[p + 1] = vocab_size + p - 1
                 /\ seg[p + 1] # rmt.pad_token_id
            /\ seg[k + 2] = rmt.sep_token
            /\ c >= 1 /\ c <= rmt.segment_size
            /\ \A p \in (k + 3)..(k + 2 + c) : seg[p] \notin Specials
            /\ seg[k + 3 + c] = rmt.sep_token
            /\ \A p \in (k + 4 + c)..Len(seg) : seg[p] = 0

\* C9 witness: with two memory tokens, a segment that needed padding and
\* one that did not.
C9_Witness ==
    /\ Segmented
    /\ rmt.num_mem_tokens = 2
    /\ \E i \in Slots : \E b \in Active(segmented[i]) :
         Len(ContentOf(segmented[i][b])) < rmt.segment_size
    /\ \E i \in Slots : \E b \in Active(segmented[i]) :
         Len(ContentOf(segmented[i][b])) = rmt.segment_size

\* C10 as stated: from one slot to the next the set of active batch
\* indices only shrinks or stays equal.
C10_ActiveShrinks ==
    Segmented =>
      \A i \in Slots : i < Len(segmented) =>
        Active(segmented[i + 1]) \subseteq Active(segmented[i])

\* C10 amended: from one slot to the next the set of active batch indices
\* only grows or stays equal.
C10_ActiveGrows ==
    Segmented =>
      \A i \in Slots : i < Len(segmented) =>
        Active(segmented[i]) \subseteq Active(segmented[i + 1])

\* C10 witness: the active set grows strictly between two slots.
C10_Witness ==
    /\ Segmented
    /\ \E i \in Slots :
         /\ i < Len(segmented)
         /\ Active(segmented[i]) # {}
         /\ Active(segmented[i]) # Active(segmented[i + 1])

\* ---- the forward loop ----

\* slot i (1-based) has been entered by the loop
Entered(i) == i <= Len(detach_log)

\* position of row b in the stacked batch of the slot's active rows
Rank(slot, b) == Cardinality({c \in Active(slot) : c <= b})

Partial(slot) == Active(slot) # {} /\ Active(slot) # 1..Len(slot)

\* the call is over: it returned or it raised
Over == pc \in {"done", "raised"}

\* the memory row b is expected to see in slot i: the hidden states of the
\* most recent earlier slot in which b was active, else the embeddings
RECURSIVE ExpectedMemory(_, _)
ExpectedMemory(i, b) ==
    IF i = 1 THEN Emb
    ELSE IF b \in Active(segmented[i - 1])
         THEN << i - 2, Rank(segmented[i - 1], b) >>
         ELSE ExpectedMemory(i - 1, b)

\* C1: in one forward call every row b is given, in every slot in which it
\* is active, the memory its most recent earlier active slot produced (the
\* memory-token embeddings if there is none); rows inactive in a processed
\* slot keep their memory.
C1_MemoryThreaded ==
    (Over /\ Returned) =>
      \A i \in Slots : \A b \in Active(segmented[i]) :
        /\ Len(calls) >= i
        /\ calls[i].invoked
        /\ calls[i].memory_in[Rank(segmented[i], b)] = ExpectedMemory(i, b)

\* C5: a slot with some but not all rows active is given to the base
\* encoder once, as the stacked segments of the active rows in batch order
\* with the caller's labels of those rows, and the call does not fail.
C5_PartialSlotInvoked ==
    \A i \in Slots :
      (Entered(i) /\ Partial(segmented[i])) =>
        /\ pc # "raised"
        /\ Len(calls) >= i
        /\ calls[i].invoked
        /\ calls[i].input_ids =
             MaskSelect(segmented[i], [b \in Batch |-> b \in Active(segmented[i])])
        /\ calls[i].labels =
             MaskSelect(labels, [b \in Batch |-> b \in Active(segmented[i])])

\* C6: the memory is detached at the start of slot i (0-based) exactly when
\* bptt_depth >= 0 and max_n_segments - i > bptt_depth; with bptt_depth = 0
\* every encoder step sees a detached memory, with bptt_depth = -1 nothing
\* is ever detached, with bptt_depth = d >= 0 nothing is detached in the
\* last d slots.
C6_Detach ==
    /\ \A i \in 1..Len(detach_log) :
         detach_log[i] <=>
           (rmt.bptt_depth >= 0 /\ rmt.max_n_segments - (i - 1) > rmt.bptt_depth)
    /\ rmt.bptt_depth = 0 =>
         \A i \in 1..Len(calls) : calls[i].invoked => calls[i].detached_in
    /\ rmt.bptt_depth = -1 =>
         /\ ~ mem_detached
         /\ \A i \in 1..Len(calls) : calls[i].invoked => ~ calls[i].detached_in
    /\ rmt.bptt_depth >= 0 =>
         \A i \in 1..Len(detach_log) :
           i - 1 >= rmt.max_n_segments - rmt.bptt_depth => ~ detach_log[i]

\* C6 witness: depth 1 over three slots, the first of them skipped: the
\* memory was detached in slots 0 and 1 and not in slot 2.
C6_Witness ==
    /\ pc = "done"
    /\ rmt.bptt_depth = 1
    /\ detach_log = << TRUE, TRUE, FALSE >>
    /\ ~ calls[1].invoked
    /\ calls[2].invoked /\ calls[2].detached_in
    /\ calls[3].invoked /\ ~ calls[3].detached_in

\* the encoder invocations of the call, in processing order
Invocations == SelectSeq(calls, LAMBDA c : c.invoked)

RECURSIVE TotalLoss(_)
TotalLoss(k) == IF k = 0 THEN 0 ELSE Invocations[k].loss + TotalLoss(k - 1)

\* C7: with sum_loss the output of a call that processed k >= 1 slots has
\* loss = the sum of the k per-slot losses and exactly the fields
\* loss_0 .. loss_{k-1}, loss_j being the loss of the j-th processed slot.
C7_SumLoss ==
    (pc = "done" /\ rmt.sum_loss) =>
      /\ Len(Invocations) >= 1
      /\ out.loss = TotalLoss(Len(Invocations))
      /\ Len(out.loss_i) = Len(Invocations)
      /\ \A j \in 1..Len(Invocations) : out.loss_i[j] = Invocations[j].loss

\* C7 witness: three processed slots with losses 1, 2, 3 give loss 6.
C7_Witness ==
    /\ pc = "done"
    /\ rmt.sum_loss
    /\ out.loss_i = << 1, 2, 3 >>
    /\ out.loss = 6

\* C8: a slot with no active row is skipped: no encoder invocation, no
\* loss recorded, the memory unchanged; the losses of the later slots are
\* numbered as if the slot did not exist.
C8_SkipStep ==
    (InLoop /\ Active(segmented[seg_num + 1]) = {}) =>
      /\ memory' = memory
      /\ losses' = losses
      /\ out' = out
      /\ Len(calls') = seg_num + 1
      /\ ~ calls'[seg_num + 1].invoked
      /\ seg_num' = seg_num + 1
      /\ pc' = "loop"

C8_Numbering ==
    pc = "done" =>
      /\ Len(out.loss_i) = Cardinality({i \in Slots : Active(segmented[i]) # {}})
      /\ \A j \in 1..Len(out.loss_i) : out.loss_i[j] = Invocations[j].loss

C8_Skipped == [][C8_SkipStep]_vars /\ []C8_Numbering

\* C8 witness: the first slot was skipped and the loss of the second slot
\* is loss_0.
C8_Witness ==
    /\ pc = "done"
    /\ Len(calls) >= 2
    /\ ~ calls[1].invoked
    /\ calls[2].invoked
    /\ out.loss_i[1] = calls[2].loss
    /\ Len(out.loss_i) = Len(calls) - 1

\* ---- the scenario of 12 and 3 content tokens ----

ContentLens(b) == [j \in 1..Len(ContentsOf(b)) |-> Len(ContentsOf(b)[j])]

\* rows of len_A content tokens fill all three slots with chunks of the
\* given sizes; rows of len_B tokens are absent from slots 0 and 1 and hold
\* one chunk of len_B tokens in slot 2
ScenarioSegmentedAs(lens_A) ==
    \A b \in Batch :
      /\ Len(Stripped(b)) = Scenario.len_A =>
           /\ \A i \in Slots : segmented[i][b] # None
           /\ ContentLens(b) = lens_A
      /\ Len(Stripped(b)) = Scenario.len_B =>
           /\ segmented[1][b] = None
           /\ segmented[2][b] = None
           /\ segmented[3][b] # None
           /\ ContentLens(b) = << Scenario.len_B >>

\* C11 as stated: with segment_size 5 and three slots, the row of 12
\* content tokens uses three slots with chunks of 5, 5 and 2 tokens and the
\* row of 3 tokens one slot with a chunk of 3; slots 0 and 1 are absent for
\* the short row, slot 2 is present for both.
C11_Chunks552 == Segmented => ScenarioSegmentedAs(<< 5, 5, 2 >>)

\* C11 amended: the same, with chunks of 4, 4 and 4 tokens for the row of
\* 12 content tokens.
C11_Chunks444 == Segmented => ScenarioSegmentedAs(<< 4, 4, 4 >>)

\* C11 witness: the batch (A, B) of the scenario has been segmented.
C11_Witness ==
    /\ Segmented
    /\ rmt.segment_size = 5 /\ rmt.max_n_segments = 3
    /\ Len(input_ids) = 2
    /\ Len(Stripped(1)) = 12
    /\ Len(Stripped(2)) = 3
    /\ Len(segmented) = 3

\* ---- rows without content, padding and the attention mask ----

EmptyRows == {b \in Batch : Len(Stripped(b)) = 0}

\* C12: a forward call on a batch with a row that has no content tokens
\* after stripping does not raise; the row is absent from every slot and
\* never active, the other rows are segmented as usual.
C12_EmptyRowCompletes ==
    (pc # "init" /\ EmptyRows # {}) =>
      /\ pc # "raised"
      /\ Len(segmented) = rmt.max_n_segments
      /\ \A b \in EmptyRows : \A i \in Slots : segmented[i][b] = None
      /\ \A b \in Batch \ EmptyRows : segmented[rmt.max_n_segments][b] # None

\* the positions of a segment that pad_add_special_tokens filled as right
\* padding: those after the SEP that closes the content
PaddingPositions(seg) ==
    (rmt.num_mem_tokens + 3 + Len(ContentOf(seg)) + 1)..Len(seg)

\* C13: in every segment passed to the encoder the right padding holds
\* pad_token_id, the attention mask is 0 at exactly the padding positions
\* and 1 at CLS, the memory ids, the SEPs and the content, and the
\* token_type_ids are all zero.
C13_PaddingMasked ==
    \A i \in 1..Len(calls) :
      calls[i].invoked =>
        \A r \in 1..Len(calls[i].input_ids) :
          LET seg == calls[i].input_ids[r]
          IN  \A p \in 1..Len(seg) :
                /\ p \in PaddingPositions(seg) => seg[p] = rmt.pad_token_id
                /\ calls[i].attention_mask[r][p] =
                     (IF p \in PaddingPositions(seg) THEN 0 ELSE 1)
                /\ calls[i].token_type_ids[r][p] = 0

====
